---- MODULE Spec2Model ----
(***************************************************************************)
(* A model of codex_addons/list_sessions.py: the session-log parser        *)
(* (load_session), the relevance filter and aggregator (gather_summaries)  *)
(* and the interactive picker (interactive_select with main's              *)
(* delete_session handler).                                                *)
(*                                                                         *)
(* Six specifications share the module:                                    *)
(*   Spec           the picker's read-key / handle / render loop           *)
(*   SpecLoad       load_session applied to bounded logs, and edits of one *)
(*   SpecGather     gather_summaries scanning a bounded store of logs      *)
(*   SpecSummarize  summarize_prompt applied to bounded prompts            *)
(*   SpecNormalize  normalize_repo_identifier applied to bounded strings   *)
(*   SpecResolver   detect_git_metadata's cache while repositories change  *)
(*                                                                         *)
(* Python strings are sequences of one-character strings (Chars("ab") =    *)
(* <<"a", "b">>); Python's None is the value None below; an optional       *)
(* record is <<>> (None) or <<r>>.                                         *)
(***************************************************************************)
EXTENDS Integers, Sequences, FiniteSets, TLC

VARIABLES
    \* ---- interactive_select (the picker) ----
    pc,              \* "Browsing" (blocked in getch, line 359), "ConfirmingDelete"
                     \* (blocked in getch, line 383), "DeleteReturned" (delete_handler
                     \* has returned, about to test `deleted`, line 391), "Exited"
                     \* (_inner has returned)
    summaries,       \* the list the picker works on: a sequence of record ids
    current,         \* the cursor, 0-based as in the code
    top,             \* first visible row
    total,           \* the item counter
    status_message,  \* the pending status message (None when there is none)
    status_row,      \* what the last render wrote on the status-message row
    visible,         \* max(1, height - 2) of the last render
    key,             \* the key getch returned last: the code's `key` (line 359)
                     \* in Browsing, its `choice` (line 383) in ConfirmingDelete
    target,          \* the record the confirmation is about: <<>> or <<id>>
    deleted,         \* delete_handler's result, first component
    selection,       \* interactive_select's return value: <<>> or <<id>>
    allow_delete,    \* the allow_delete parameter (--delete)
    files,           \* storage: the ids of the records whose log file exists
    \* ---- load_session on one log file ----
    ls_log,          \* the file's lines
    ls_result,       \* what load_session gave for ls_log ("unread": not called yet)
    ls_prev,         \* the outcome for the file as it was before its last edit
    \* ---- gather_summaries over the session store ----
    gs_store,        \* the log files in the order find_session_files yields them
    gs_query,        \* the arguments current_dir, git_context, require_git_lookup
    gs_i,            \* the file the loop of line 271 takes next
    gs_summaries,    \* the local list `summaries`
    gs_cache,        \* detect_git_metadata's lru_cache: path -> GitContext
    gs_pc,           \* "scanning", "returned", or "raised" (an exception left it)
    gs_limit,        \* the argument limit: <<>> (None) or <<n>>
    gs_result,       \* the returned list
    \* ---- a pure function applied to an input ----
    pf_arg,          \* the input string
    pf_cap,          \* summarize_prompt's max_length
    pf_out,          \* the values returned so far, in order
    \* ---- detect_git_metadata and the version-control tool ----
    rs_disk,         \* the state of each directory on disk
    rs_cache,        \* detect_git_metadata's lru_cache: path -> GitContext
    rs_log,          \* the queries put to the git tool so far, with their answers
    rs_ret           \* the last call of detect_git_metadata: <<>> or <<the call>>

pickerVars == <<pc, summaries, current, top, total, status_message, status_row,
                visible, key, target, deleted, selection,
                allow_delete, files>>

loadVars == <<ls_log, ls_result, ls_prev>>

gatherVars == <<gs_store, gs_query, gs_i, gs_summaries, gs_cache, gs_pc,
                gs_limit, gs_result>>

pureVars == <<pf_arg, pf_cap, pf_out>>

resolverVars == <<rs_disk, rs_cache, rs_log, rs_ret>>

vars == <<pickerVars, loadVars, gatherVars, pureVars, resolverVars>>

(***************************************************************************)
(* Bounds of the model.                                                    *)
(***************************************************************************)
MaxSessions == 4
MaxHeight == 4
MaxLines == 3
MaxFiles == 2
MaxPromptLen == 5
MaxCap == 4
MaxTokens == 3

None == "None"

\* The element of a singleton set.  Writing The({F(v) : v \in {e}}) for F(e)
\* has e computed once, however often F uses it.
The(S) == CHOOSE x \in S : TRUE

Max(a, b) == IF a >= b THEN a ELSE b
Min(a, b) == IF a <= b THEN a ELSE b

\* summaries.pop(i), i 0-based
Pop(s, i) == [j \in 1..(Len(s) - 1) |-> IF j <= i THEN s[j] ELSE s[j + 1]]

(***************************************************************************)
(* Python strings.  A str is a sequence of one-character strings.          *)
(***************************************************************************)
Chars(s) == [i \in 1..Len(s) |-> SubSeq(s, i, i)]

Whitespace == {" ", "\t", "\n", "\r"}
LineBreaks == {"\n", "\r"}

UpperCase == Chars("ABCDEFGHIJKLMNOPQRSTUVWXYZ")
LowerCase == Chars("abcdefghijklmnopqrstuvwxyz")

\* str.lower
LowerChar(c) == IF \E i \in 1..Len(UpperCase) : UpperCase[i] = c
                THEN LowerCase[CHOOSE i \in 1..Len(UpperCase) : UpperCase[i] = c]
                ELSE c
Lower(s) == [i \in 1..Len(s) |-> LowerChar(s[i])]

\* str.startswith, str.endswith
StartsWith(s, p) == Len(p) <= Len(s) /\ SubSeq(s, 1, Len(p)) = p
EndsWith(s, p) == Len(p) <= Len(s) /\ SubSeq(s, Len(s) - Len(p) + 1, Len(s)) = p

\* str.lstrip, str.rstrip, str.strip (of whitespace)
RECURSIVE LStrip(_)
LStrip(s) == IF s # <<>> /\ Head(s) \in Whitespace THEN LStrip(Tail(s)) ELSE s
RECURSIVE RStrip(_)
RStrip(s) == IF s # <<>> /\ s[Len(s)] \in Whitespace
             THEN RStrip(SubSeq(s, 1, Len(s) - 1))
             ELSE s
Strip(s) == RStrip(LStrip(s))

\* The index of the first character of s, from index i on, that is in set cs;
\* Len(s) + 1 if there is none.
RECURSIVE FirstFrom(_, _, _)
FirstFrom(s, i, cs) == IF i > Len(s) \/ s[i] \in cs THEN i ELSE FirstFrom(s, i + 1, cs)

FirstIn(s, cs) == FirstFrom(s, 1, cs)

\* sep.join(parts)
RECURSIVE Join(_, _)
Join(parts, sep) == IF parts = <<>> THEN <<>>
                    ELSE IF Len(parts) = 1 THEN parts[1]
                    ELSE parts[1] \o sep \o Join(Tail(parts), sep)

\* str.split(): the maximal runs of non-whitespace characters.
RECURSIVE Split(_)
Split(s) ==
    LET t == LStrip(s) IN
        IF t = <<>> THEN <<>>
        ELSE LET e == FirstIn(t, Whitespace) IN
                 <<SubSeq(t, 1, e - 1)>> \o Split(SubSeq(t, e, Len(t)))

(***************************************************************************)
(* The record parser: lines 18-25 and 66-170.                              *)
(***************************************************************************)
MAX_PROMPT_LENGTH == 160

NOISE_PREFIXES == {Chars("<environment_context"), Chars("<user_instructions"),
                   Chars("<system_instructions"), Chars("<codex_resume")}

\* The character summarize_prompt appends to a truncated summary (U+2026).
Ellipsis == "U+2026"

\* TAG_PATTERN.sub(" ", s) with TAG_PATTERN = <[^>]+> , from index i on:
\* scanning from the left, a "<" whose next ">" lies at least two characters
\* further is replaced, with everything up to that ">", by one space.
RECURSIVE StripTagsFrom(_, _)
StripTagsFrom(s, i) ==
    IF i > Len(s) THEN <<>>
    ELSE IF s[i] = "<" /\ FirstFrom(s, i + 1, {">"}) \in (i + 2)..Len(s)
    THEN <<" ">> \o StripTagsFrom(s, FirstFrom(s, i + 1, {">"}) + 1)
    ELSE <<s[i]>> \o StripTagsFrom(s, i + 1)

StripTags(s) == StripTagsFrom(s, 1)

\* Lines 94-100: the first line of `cleaned` that is not blank, stripped:
\* <<>> (None) or <<line>>.
RECURSIVE FirstMeaningfulLine(_)
FirstMeaningfulLine(cleaned) ==
    IF cleaned = <<>> THEN <<>>
    ELSE LET e == FirstIn(cleaned, LineBreaks)
             line == Strip(SubSeq(cleaned, 1, e - 1))
         IN  IF line # <<>> THEN <<line>>
             ELSE FirstMeaningfulLine(SubSeq(cleaned, e + 1, Len(cleaned)))

\* A summarizer that cuts at max_length and then appends the ellipsis.
summarize_prompt_CutsAtCap(prompt, max_length) ==
    LET summary == Join(Split(StripTags(prompt)), <<" ">>)
    IN  IF Len(summary) > max_length
        THEN SubSeq(summary, 1, max_length) \o <<Ellipsis>>
        ELSE summary

\* Lines 92-108.
summarize_prompt(prompt, max_length) ==
    LET cleaned == StripTags(prompt)
        first == FirstMeaningfulLine(cleaned)
        meaningful_line == IF first = <<>> THEN Join(Split(cleaned), <<" ">>)
                           ELSE first[1]
        summary == Join(Split(meaningful_line), <<" ">>)
    IN  IF summary = <<>> THEN <<>>
        ELSE IF Len(summary) > max_length
        THEN RStrip(SubSeq(summary, 1, max_length - 1)) \o <<Ellipsis>>
        ELSE summary

\* Lines 84-89.
is_noise_prompt(prompt) ==
    LET stripped == LStrip(prompt)
        lower == Lower(stripped)
    IN  IF stripped = <<>> THEN TRUE
        ELSE \E prefix \in NOISE_PREFIXES : StartsWith(lower, prefix)

\* Lines 75-81: content is a sequence of blocks [text |-> a string]; a block
\* without text has text "".
RECURSIVE StrippedTexts(_)
StrippedTexts(content) ==
    IF content = <<>> THEN <<>>
    ELSE LET part == Strip(Chars(Head(content).text)) IN
             (IF Head(content).text # "" /\ part # <<>> THEN <<part>> ELSE <<>>)
             \o StrippedTexts(Tail(content))

extract_prompt(content) == Join(StrippedTexts(content), <<"\n">>)

\* A timestamp value of a log line: form "absent" (no such key), "garbage" (a
\* string that is no ISO-8601 time), "number" (a JSON number), or a parseable
\* string: "naive" (no offset), "Z" (trailing Z) or "offset"; wall is its wall
\* clock reading and off its UTC offset, both in hours.
NoTs == [form |-> "absent", wall |-> 0, off |-> 0]
Ts(form, wall, off) == [form |-> form, wall |-> wall, off |-> off]

\* Lines 66-72 on a parseable string: an aware datetime.  Z and a missing
\* offset both mean UTC.
parse_timestamp(raw) ==
    [wall |-> raw.wall, off |-> IF raw.form = "offset" THEN raw.off ELSE 0]

\* The instant of an aware datetime, in hours: what datetime comparison uses.
Instant(dt) == dt.wall - dt.off

\* The git object of a session_meta payload: form "absent", "null" or
\* "object"; branch and repository_url are None when the key is missing.
NoGit == [form |-> "absent", branch |-> None, repository_url |-> None]
Git(branch, url) == [form |-> "object", branch |-> branch, repository_url |-> url]

\* One line of a log file.  json: "blank", "invalid" (not JSON), "nonobject"
\* (JSON, but a list, string, number or null) or "object"; payload: "absent",
\* "nonobject" or "object"; cwd: <<>> (missing) or <<path>>; content: the
\* message's blocks; the other fields are None when the key is missing.
Line(json, type, payload) ==
    [json |-> json, type |-> type, payload |-> payload, ptype |-> None,
     role |-> None, content |-> <<>>, cwd |-> <<>>, timestamp |-> NoTs,
     top_timestamp |-> NoTs, id |-> None, top_id |-> None, git |-> NoGit]

BlankLine == Line("blank", None, "absent")
InvalidLine == Line("invalid", None, "absent")
NonObjectLine == Line("nonobject", None, "absent")
OtherEvent == Line("object", "event_msg", "object")
ItemBadPayload == Line("object", "response_item", "nonobject")

SessionMeta(cwd, ts, id, git) ==
    [Line("object", "session_meta", "object")
        EXCEPT !.cwd = cwd, !.timestamp = ts, !.id = id, !.git = git]

Message(role, texts) ==
    [Line("object", "response_item", "object")
        EXCEPT !.ptype = "message", !.role = role,
               !.content = [i \in 1..Len(texts) |-> [text |-> texts[i]]]]

\* Path.resolve on an absolute path (a sequence of components) in a file
\* system whose only symbolic link is `link`, pointing to `dest`.
ResolveWith(path, link, dest) ==
    IF Len(path) >= Len(link) /\ SubSeq(path, 1, Len(link)) = link
    THEN dest \o SubSeq(path, Len(link) + 1, Len(path))
    ELSE path

\* The file system of the model: /work/ln is a symbolic link to /work/proj.
Resolve(path) == ResolveWith(path, <<"work", "ln">>, <<"work", "proj">>)

\* A scan that does not stop at the first usable prompt: it reads on, and a
\* session_meta event behind the prompt counts.
RECURSIVE ScanLines_KeepsReading(_, _, _)
ScanLines_KeepsReading(lines, i, session_meta) ==
    IF i > Len(lines)
    THEN [raised |-> FALSE, session_meta |-> session_meta, first_user_prompt |-> <<>>]
    ELSE LET event == lines[i] IN
        IF event.json \in {"blank", "invalid"}
        THEN ScanLines_KeepsReading(lines, i + 1, session_meta)
        ELSE IF event.json = "nonobject"
        THEN [raised |-> TRUE, session_meta |-> session_meta, first_user_prompt |-> <<>>]
        ELSE IF event.type = "session_meta"
        THEN ScanLines_KeepsReading(lines, i + 1, <<event>>)
        ELSE IF event.type # "response_item" \/ event.payload = "absent"
        THEN ScanLines_KeepsReading(lines, i + 1, session_meta)
        ELSE IF event.payload = "nonobject"
        THEN [raised |-> TRUE, session_meta |-> session_meta, first_user_prompt |-> <<>>]
        ELSE IF /\ event.ptype = "message" /\ event.role = "user"
                /\ ~is_noise_prompt(extract_prompt(event.content))
                /\ summarize_prompt(extract_prompt(event.content), MAX_PROMPT_LENGTH) # <<>>
        THEN [ScanLines_KeepsReading(lines, i + 1, session_meta)
                 EXCEPT !.first_user_prompt = <<extract_prompt(event.content)>>]
        ELSE ScanLines_KeepsReading(lines, i + 1, session_meta)

\* Lines 116-139: the scan from line i on, session_meta being <<>> (None) or
\* <<the last session_meta event read>>.  raised: an exception left the loop.
RECURSIVE ScanLines(_, _, _)
ScanLines(lines, i, session_meta) ==
    IF i > Len(lines)
    THEN [raised |-> FALSE, session_meta |-> session_meta, first_user_prompt |-> <<>>]
    ELSE LET event == lines[i] IN
        IF event.json \in {"blank", "invalid"}
        THEN ScanLines(lines, i + 1, session_meta)
        ELSE IF event.json = "nonobject"
        THEN [raised |-> TRUE, session_meta |-> session_meta, first_user_prompt |-> <<>>]
        ELSE IF event.type = "session_meta"
        THEN ScanLines(lines, i + 1, <<event>>)
        ELSE IF event.type # "response_item" \/ event.payload = "absent"
        THEN ScanLines(lines, i + 1, session_meta)
        ELSE IF event.payload = "nonobject"
        THEN [raised |-> TRUE, session_meta |-> session_meta, first_user_prompt |-> <<>>]
        ELSE IF event.ptype = "message" /\ event.role = "user"
        THEN LET candidate_prompt == extract_prompt(event.content) IN
                 IF is_noise_prompt(candidate_prompt)
                 THEN ScanLines(lines, i + 1, session_meta)
                 ELSE IF summarize_prompt(candidate_prompt, MAX_PROMPT_LENGTH) # <<>>
                 THEN [raised |-> FALSE, session_meta |-> session_meta,
                       first_user_prompt |-> <<candidate_prompt>>]
                 ELSE ScanLines(lines, i + 1, session_meta)
        ELSE ScanLines(lines, i + 1, session_meta)

\* What load_session gives: a record, None, or an exception that leaves it.
Returned(rec) == [outcome |-> "record", rec |-> <<rec>>]
ReturnedNone == [outcome |-> "none", rec |-> <<>>]
Raised == [outcome |-> "raised", rec |-> <<>>]

\* Lines 141-170: what becomes of the loop's result `scan`.
BuildSummary(file_path, scan) ==
    IF scan.raised THEN Raised
    ELSE IF scan.session_meta = <<>> \/ scan.first_user_prompt = <<>> THEN ReturnedNone
    ELSE LET session_meta == scan.session_meta[1]
             present == session_meta.payload = "object"
             raw_cwd == IF present THEN session_meta.cwd ELSE <<>>
             raw_timestamp == IF present /\ session_meta.timestamp.form # "absent"
                              THEN session_meta.timestamp
                              ELSE session_meta.top_timestamp
             session_id == IF present /\ session_meta.id \notin {None, ""}
                           THEN session_meta.id
                           ELSE IF session_meta.top_id # None
                           THEN session_meta.top_id
                           ELSE ""
             git_info == IF present THEN session_meta.git ELSE NoGit
             prompt == Strip(scan.first_user_prompt[1])
         IN  IF session_meta.payload = "nonobject" THEN Raised
             ELSE IF raw_cwd = <<>> \/ raw_timestamp.form = "absent" THEN ReturnedNone
             ELSE IF raw_timestamp.form = "number" THEN Raised
             ELSE IF raw_timestamp.form = "garbage" THEN ReturnedNone
             ELSE IF prompt = <<>> THEN ReturnedNone
             ELSE IF git_info.form = "null" THEN Raised
             ELSE Returned([timestamp |-> parse_timestamp(raw_timestamp),
                            cwd |-> Resolve(raw_cwd[1]),
                            file_path |-> file_path,
                            prompt |-> prompt,
                            session_id |-> session_id,
                            git_branch |-> git_info.branch,
                            git_repository |-> git_info.repository_url])

\* Lines 111-170 on the log `lines` of file file_path.
load_session(file_path, lines) ==
    The({BuildSummary(file_path, scan) : scan \in {ScanLines(lines, 1, <<>>)}})

(***************************************************************************)
(* The picker: interactive_select._inner                                   *)
(***************************************************************************)
\* The terminal heights a render may see (the terminal may be resized between
\* two cycles).  Below 2 rows curses cannot place the status lines.
Heights == 2..MaxHeight

KeysUp == {"KEY_UP", "k"}
KeysDown == {"KEY_DOWN", "j"}
KeysEnter == {"KEY_ENTER", "LF", "CR"}
KeysDelete == {"d", "D"}
KeysQuit == {"ESC", "q"}
KeysYes == {"y", "Y"}
KeysNo == {"n", "N", "ESC"}
AllKeys == KeysUp \cup KeysDown \cup {"KEY_PPAGE", "KEY_NPAGE"} \cup KeysEnter
           \cup KeysDelete \cup KeysQuit \cup KeysYes \cup KeysNo
           \cup {"KEY_RESIZE", "x"}

MsgCancelled == "Deletion cancelled."
MsgAlreadyRemoved == "Session file already removed."
MsgFailed == "Failed to delete"
MsgDeleted == "Deleted session"

\* A window that never scrolls.
ScrollTop_KeepsTop(cur, tp, vis) == tp

\* Lines 330-333: keep the cursor inside the window of `vis` rows.
ScrollTop(cur, tp, vis) ==
    IF cur < tp THEN cur
    ELSE IF cur >= tp + vis THEN cur - vis + 1
    ELSE tp

\* Lines 326-356: one render with cursor `cur` and pending message `msg`, on a
\* terminal of h rows; it leaves the picker blocked in getch (line 359).
Render(cur, msg, h) ==
    /\ visible' = Max(1, h - 2)
    /\ top' = ScrollTop(cur, top, Max(1, h - 2))
    /\ status_row' = msg
    /\ status_message' = None
    /\ pc' = "Browsing"

\* State after lines 318-323 and the first render.
InitPicker ==
    /\ \E n \in 1..MaxSessions :
          /\ summaries = [i \in 1..n |-> i]
          /\ total = n
          \* every log was there when it was scanned; one may have vanished since
          /\ \E gone \in SUBSET (1..n) :
                /\ Cardinality(gone) <= 1
                /\ files = (1..n) \ gone
    /\ allow_delete \in BOOLEAN
    /\ current = 0
    /\ \E h \in Heights : visible = Max(1, h - 2)
    /\ top = 0
    /\ status_message = None
    /\ status_row = None
    /\ key = None
    /\ target = <<>>
    /\ deleted = FALSE
    /\ selection = <<>>
    /\ pc = "Browsing"

\* MoveCursor with up and down stopping at the ends instead of wrapping.
MoveCursor_NoWrap ==
    /\ pc = "Browsing"
    /\ \E k \in KeysUp \cup KeysDown \cup {"KEY_PPAGE", "KEY_NPAGE"}, h \in Heights :
          /\ key' = k
          /\ current' = IF k \in KeysUp THEN Max(current - 1, 0)
                        ELSE IF k \in KeysDown THEN Min(current + 1, total - 1)
                        ELSE IF k = "KEY_PPAGE" THEN Max(current - visible, 0)
                        ELSE Min(current + visible, total - 1)
          /\ Render(current', status_message, h)
    /\ UNCHANGED <<summaries, total, target, deleted, selection,
                   allow_delete, files>>
    /\ UNCHANGED <<loadVars, gatherVars, pureVars, resolverVars>>

\* Lines 363-370 followed by the next render: a movement key.
MoveCursor ==
    /\ pc = "Browsing"
    /\ \E k \in KeysUp \cup KeysDown \cup {"KEY_PPAGE", "KEY_NPAGE"}, h \in Heights :
          /\ key' = k
          /\ current' = IF k \in KeysUp THEN (current - 1) % total
                        ELSE IF k \in KeysDown THEN (current + 1) % total
                        ELSE IF k = "KEY_PPAGE" THEN Max(current - visible, 0)
                        ELSE Min(current + visible, total - 1)
          /\ Render(current', status_message, h)
    /\ UNCHANGED <<summaries, total, target, deleted, selection,
                   allow_delete, files>>
    /\ UNCHANGED <<loadVars, gatherVars, pureVars, resolverVars>>

\* Lines 371-372: Enter returns the record under the cursor.
Enter ==
    /\ pc = "Browsing"
    /\ \E k \in KeysEnter : key' = k
    /\ selection' = <<summaries[current + 1]>>
    /\ pc' = "Exited"
    /\ UNCHANGED <<summaries, current, top, total, status_message, status_row,
                   visible, target, deleted, allow_delete, files>>
    /\ UNCHANGED <<loadVars, gatherVars, pureVars, resolverVars>>

\* A delete key that opens the confirmation whether or not delete mode is on.
StartDelete_Always ==
    /\ pc = "Browsing"
    /\ \E k \in KeysDelete : key' = k
    /\ target' = <<summaries[current + 1]>>
    /\ pc' = "ConfirmingDelete"
    /\ UNCHANGED <<summaries, current, top, total, status_message, status_row,
                   visible, deleted, selection, allow_delete, files>>
    /\ UNCHANGED <<loadVars, gatherVars, pureVars, resolverVars>>

\* Lines 373-380: the delete key, in delete mode, opens the confirmation.
StartDelete ==
    /\ pc = "Browsing"
    /\ allow_delete
    /\ \E k \in KeysDelete : key' = k
    /\ target' = <<summaries[current + 1]>>
    /\ pc' = "ConfirmingDelete"
    /\ UNCHANGED <<summaries, current, top, total, status_message, status_row,
                   visible, deleted, selection, allow_delete, files>>
    /\ UNCHANGED <<loadVars, gatherVars, pureVars, resolverVars>>

\* Lines 405-406: Escape or q.
Quit ==
    /\ pc = "Browsing"
    /\ \E k \in KeysQuit : key' = k
    /\ selection' = <<>>
    /\ pc' = "Exited"
    /\ UNCHANGED <<summaries, current, top, total, status_message, status_row,
                   visible, target, deleted, allow_delete, files>>
    /\ UNCHANGED <<loadVars, gatherVars, pureVars, resolverVars>>

\* The keys no branch of lines 363-406 takes (KEY_RESIZE, y, ..., and the
\* delete key outside delete mode).
IgnoredKeys ==
    (AllKeys \ (KeysUp \cup KeysDown \cup {"KEY_PPAGE", "KEY_NPAGE"}
                \cup KeysEnter \cup KeysQuit))
    \ (IF allow_delete THEN KeysDelete ELSE {})

\* Such a key: the loop renders again.
IgnoreKey ==
    /\ pc = "Browsing"
    /\ \E k \in IgnoredKeys, h \in Heights :
          /\ key' = k
          /\ Render(current, status_message, h)
    /\ UNCHANGED <<summaries, current, total, target, deleted,
                   selection, allow_delete, files>>
    /\ UNCHANGED <<loadVars, gatherVars, pureVars, resolverVars>>

\* InterruptBrowsing handled like Enter.
InterruptBrowsing_Selects ==
    /\ pc = "Browsing"
    /\ selection' = <<summaries[current + 1]>>
    /\ pc' = "Exited"
    /\ UNCHANGED <<summaries, current, top, total, status_message, status_row,
                   visible, key, target, deleted, allow_delete, files>>
    /\ UNCHANGED <<loadVars, gatherVars, pureVars, resolverVars>>

\* Lines 358-361: KeyboardInterrupt out of the Browsing getch.
InterruptBrowsing ==
    /\ pc = "Browsing"
    /\ selection' = <<>>
    /\ pc' = "Exited"
    /\ UNCHANGED <<summaries, current, top, total, status_message, status_row,
                   visible, key, target, deleted, allow_delete, files>>
    /\ UNCHANGED <<loadVars, gatherVars, pureVars, resolverVars>>

\* Lines 382-386 and 404, then the next render: KeyboardInterrupt out of the
\* confirmation's getch.
InterruptConfirming ==
    /\ pc = "ConfirmingDelete"
    /\ \E h \in Heights : Render(current, MsgCancelled, h)
    /\ UNCHANGED <<summaries, current, total, key, target, deleted,
                   selection, allow_delete, files>>
    /\ UNCHANGED <<loadVars, gatherVars, pureVars, resolverVars>>

\* main's delete_session (lines 497-504) on record r; unlink_ok is whether
\* file_path.unlink() succeeds.  <<deleted, notice, the files after the call>>.
delete_session(r, unlink_ok) ==
    IF r \notin files THEN <<FALSE, MsgAlreadyRemoved, files>>
    ELSE IF ~unlink_ok THEN <<FALSE, MsgFailed, files>>
    ELSE <<TRUE, MsgDeleted, files \ {r}>>

\* Lines 388-390: the yes-key calls delete_handler(target) and keeps its notice
\* as the pending status message.
ConfirmYes ==
    /\ pc = "ConfirmingDelete"
    /\ \E k \in KeysYes : key' = k
    /\ \E unlink_ok \in BOOLEAN :
          LET res == delete_session(target[1], unlink_ok) IN
              /\ deleted' = res[1]
              /\ status_message' = res[2]
              /\ files' = res[3]
    /\ pc' = "DeleteReturned"
    /\ UNCHANGED <<summaries, current, top, total, status_row, visible, target, selection, allow_delete>>
    /\ UNCHANGED <<loadVars, gatherVars, pureVars, resolverVars>>

\* ApplyDelete without the test of `deleted`: the record is popped whatever
\* the handler returned.
ApplyDelete_IgnoresResult ==
    /\ pc = "DeleteReturned"
    /\ summaries' = Pop(summaries, current)
    /\ total' = total - 1
    /\ IF total' = 0
       THEN /\ selection' = <<>>
            /\ pc' = "Exited"
            /\ UNCHANGED <<current, top, status_message, status_row, visible>>
       ELSE /\ current' = IF current >= total' THEN total' - 1 ELSE current
            /\ \E h \in Heights : Render(current', status_message, h)
            /\ UNCHANGED selection
    /\ UNCHANGED <<key, target, deleted, allow_delete, files>>
    /\ UNCHANGED <<loadVars, gatherVars, pureVars, resolverVars>>

\* ApplyDelete without the return of lines 394-395: an emptied list goes back
\* to the render loop.
ApplyDelete_NoExit ==
    /\ pc = "DeleteReturned"
    /\ IF deleted
       THEN /\ summaries' = Pop(summaries, current)
            /\ total' = total - 1
            /\ current' = IF current >= total' THEN total' - 1 ELSE current
            /\ \E h \in Heights : Render(current', status_message, h)
       ELSE /\ \E h \in Heights : Render(current, status_message, h)
            /\ UNCHANGED <<summaries, total, current>>
    /\ UNCHANGED <<key, target, deleted, selection, allow_delete, files>>
    /\ UNCHANGED <<loadVars, gatherVars, pureVars, resolverVars>>

\* Lines 391-398 and 404, then the next render (or the return of line 395).
ApplyDelete ==
    /\ pc = "DeleteReturned"
    /\ IF deleted
       THEN /\ summaries' = Pop(summaries, current)
            /\ total' = total - 1
            /\ IF total' = 0
               THEN /\ selection' = <<>>
                    /\ pc' = "Exited"
                    /\ UNCHANGED <<current, top, status_message, status_row,
                                   visible>>
               ELSE /\ current' = IF current >= total' THEN total' - 1 ELSE current
                    /\ \E h \in Heights : Render(current', status_message, h)
                    /\ UNCHANGED selection
       ELSE /\ \E h \in Heights : Render(current, status_message, h)
            /\ UNCHANGED <<summaries, total, current, selection>>
    /\ UNCHANGED <<key, target, deleted, allow_delete, files>>
    /\ UNCHANGED <<loadVars, gatherVars, pureVars, resolverVars>>

\* A no-key that is taken for a yes: the record leaves the list.
ConfirmNo_Pops ==
    /\ pc = "ConfirmingDelete"
    /\ Len(summaries) > 1
    /\ \E k \in KeysNo : key' = k
    /\ summaries' = Pop(summaries, current)
    /\ total' = total - 1
    /\ current' = IF current >= total' THEN total' - 1 ELSE current
    /\ \E h \in Heights : Render(current', MsgCancelled, h)
    /\ UNCHANGED <<target, deleted, selection, allow_delete, files>>
    /\ UNCHANGED <<loadVars, gatherVars, pureVars, resolverVars>>

\* Lines 400-402 and 404, then the next render: the no-key or Escape.
ConfirmNo ==
    /\ pc = "ConfirmingDelete"
    /\ \E k \in KeysNo : key' = k
    /\ \E h \in Heights : Render(current, MsgCancelled, h)
    /\ UNCHANGED <<summaries, current, total, target, deleted, selection,
                   allow_delete, files>>
    /\ UNCHANGED <<loadVars, gatherVars, pureVars, resolverVars>>

\* Lines 377-383: any other key repeats the confirmation prompt.
ConfirmOther ==
    /\ pc = "ConfirmingDelete"
    /\ \E k \in AllKeys \ (KeysYes \cup KeysNo) : key' = k
    /\ UNCHANGED <<pc, summaries, current, top, total, status_message,
                   status_row, visible, target, deleted, selection,
                   allow_delete, files>>
    /\ UNCHANGED <<loadVars, gatherVars, pureVars, resolverVars>>

(***************************************************************************)
(* The identifier normalizer and the relevance filter: lines 51-63 and     *)
(* 173-250.                                                                *)
(***************************************************************************)
\* The index at which p first occurs in s, 0 if it does not.
RECURSIVE FindFrom(_, _, _)
FindFrom(s, p, i) ==
    IF i + Len(p) - 1 > Len(s) THEN 0
    ELSE IF SubSeq(s, i, i + Len(p) - 1) = p THEN i
    ELSE FindFrom(s, p, i + 1)

Find(s, p) == FindFrom(s, p, 1)

\* The index of the first character of s, from index i on, that is not in
\* set cs (Len(s) + 1 if there is none), and of the last one, from index i
\* down (0 if there is none).
RECURSIVE FirstNotFrom(_, _, _)
FirstNotFrom(s, i, cs) ==
    IF i > Len(s) \/ s[i] \notin cs THEN i ELSE FirstNotFrom(s, i + 1, cs)

RECURSIVE LastNotFrom(_, _, _)
LastNotFrom(s, i, cs) ==
    IF i < 1 \/ s[i] \notin cs THEN i ELSE LastNotFrom(s, i - 1, cs)

\* str.strip("/")
StripSlashes(s) == SubSeq(s, FirstNotFrom(s, 1, {"/"}), LastNotFrom(s, Len(s), {"/"}))

\* The components of a path string: its parts between slashes, the empty ones
\* and "." dropped.
Components(s) ==
    LET starts == SelectSeq([i \in 1..Len(s) |-> i],
                            LAMBDA i : s[i] # "/" /\ (i = 1 \/ s[i - 1] = "/"))
        parts == [k \in 1..Len(starts) |->
                     SubSeq(s, starts[k], FirstFrom(s, starts[k], {"/"}) - 1)]
    IN  SelectSeq(parts, LAMBDA part : part # <<".">>)

\* Path.expanduser for "~" and "~/...", the home directory being /home/u.
ExpandUser(parts) ==
    IF parts # <<>> /\ parts[1] = <<"~">>
    THEN <<Chars("home"), Chars("u")>> \o Tail(parts)
    ELSE parts

\* str(Path(value).expanduser().resolve()) for a value that starts with "/",
\* with "~" or with "~/".
ResolvePathString(value) ==
    The({IF resolved = <<>> THEN <<"/">> ELSE <<"/">> \o Join(resolved, <<"/">>) :
         resolved \in {ResolveWith(ExpandUser(parts), <<Chars("work"), Chars("ln")>>,
                                   <<Chars("work"), Chars("proj")>>) :
                       parts \in {Components(value)}}})

\* Lines 180-186: git@host:path becomes host/path, scheme://rest becomes rest.
WithoutScheme(value) ==
    IF StartsWith(value, Chars("git@"))
    THEN The({IF Find(rest, <<":">>) > 0
              THEN SubSeq(rest, 1, Find(rest, <<":">>) - 1) \o <<"/">>
                   \o SubSeq(rest, Find(rest, <<":">>) + 1, Len(rest))
              ELSE rest :
              rest \in {SubSeq(value, 5, Len(value))}})
    ELSE IF Find(value, Chars("://")) > 0
    THEN SubSeq(value, Find(value, Chars("://")) + 3, Len(value))
    ELSE value

\* Lines 188-191.
PathOrStripped(value) ==
    IF StartsWith(value, <<"~">>) \/ StartsWith(value, <<"/">>)
    THEN ResolvePathString(value)
    ELSE StripSlashes(value)

\* Lines 193-194.
WithoutDotGit(value) ==
    IF EndsWith(value, Chars(".git")) THEN SubSeq(value, 1, Len(value) - 4) ELSE value

\* Lines 174-196 on a str given by its characters: <<>> (None) or <<the
\* normal form>>.
NormalizeChars(identifier) ==
    IF identifier = <<>> THEN <<>>
    ELSE The({IF value = <<>> THEN <<>>
              ELSE The({<<Lower(WithoutDotGit(located))>> :
                        located \in {PathOrStripped(bare) :
                                     bare \in {WithoutScheme(value)}}}) :
              value \in {Strip(identifier)}})

\* Lines 173-196, on a string or None: <<>> (None) or <<the normal form>>.
normalize_repo_identifier(identifier) ==
    IF identifier = None THEN <<>> ELSE NormalizeChars(Chars(identifier))

\* Lines 245-250.
repo_matches(session_repo, context_repo) ==
    IF context_repo = None \/ context_repo = "" THEN TRUE
    ELSE IF session_repo = None \/ session_repo = "" THEN TRUE
    ELSE normalize_repo_identifier(session_repo) = normalize_repo_identifier(context_repo)

\* Path.relative_to: <<>> for the ValueError, else <<the relative path>>.
relative_to(path, base) ==
    IF Len(base) <= Len(path) /\ SubSeq(path, 1, Len(base)) = base
    THEN <<SubSeq(path, Len(base) + 1, Len(path))>>
    ELSE <<>>

\* Containment tested in one direction only.
is_relevant_session_OneWay(session_cwd, current_dir) ==
    relative_to(Resolve(current_dir), Resolve(session_cwd)) # <<>>

\* Lines 51-63.
is_relevant_session(session_cwd, current_dir) ==
    IF relative_to(Resolve(current_dir), Resolve(session_cwd)) # <<>> THEN TRUE
    ELSE relative_to(Resolve(session_cwd), Resolve(current_dir)) # <<>>

GitContext(branch, repository) == [branch |-> branch, repository |-> repository]

\* A back-fill that also replaces the fields the log has.
BackFill_Overwrites(summary, metadata) ==
    [summary EXCEPT !.git_branch = metadata.branch,
                    !.git_repository = metadata.repository]

\* No back-fill at all.
BackFill_Nothing(summary, metadata) == summary

\* Lines 276-284: the record with its missing git fields filled from metadata.
BackFill(summary, metadata) ==
    [summary EXCEPT
        !.git_branch = IF summary.git_branch = None THEN metadata.branch
                       ELSE summary.git_branch,
        !.git_repository = IF summary.git_repository = None THEN metadata.repository
                           ELSE summary.git_repository]

\* Line 276: whether the resolver is asked about the record.  git_context is
\* <<>> (None) or <<a GitContext>>.
NeedsLookup(summary, git_context, require_git_lookup) ==
    /\ git_context # <<>>
    /\ require_git_lookup
    /\ \/ summary.git_branch = None
       \/ /\ git_context[1].repository \notin {None, ""}
          /\ summary.git_repository = None

\* Lines 286-296: the inclusion decision for a (back-filled) record.
Include(summary, current_dir, git_context) ==
    LET path_match == is_relevant_session(summary.cwd, current_dir) IN
        IF git_context = <<>> THEN path_match
        ELSE IF git_context[1].branch \notin {None, ""}
        THEN /\ summary.git_branch = git_context[1].branch
             /\ repo_matches(summary.git_repository, git_context[1].repository)
        ELSE IF git_context[1].repository \notin {None, ""}
        THEN \/ path_match
             \/ repo_matches(summary.git_repository, git_context[1].repository)
        ELSE path_match

(***************************************************************************)
(* load_session applied to a log file, and edits of the file between two   *)
(* reads.                                                                  *)
(***************************************************************************)
MetaGood == SessionMeta(<<<<"work", "proj">>>>, Ts("Z", 1, 0), "s1", NoGit)
MetaSecond == SessionMeta(<<<<"work", "other">>>>, Ts("offset", 5, 2), "s9",
                          Git("dev", "https://h.io/a/s.git"))
MetaBadTs == SessionMeta(<<<<"work", "proj">>>>, Ts("garbage", 0, 0), "s1", NoGit)
MetaNumTs == SessionMeta(<<<<"work", "proj">>>>, Ts("number", 0, 0), "s1", NoGit)
MetaNoCwd == SessionMeta(<<>>, Ts("Z", 1, 0), "s1", NoGit)
UserGenuine == Message("user", <<" Fix the flaky test ">>)
UserNoise == Message("user", <<" <User_Instructions>be brief</User_Instructions>">>)
UserNoiseThenText ==
    Message("user", <<"<environment_context>cwd</environment_context>\nAdd caching layer">>)
UserTagOnly == Message("user", <<"<b>", "</b>">>)
AssistantMessage == Message("assistant", <<"Done.">>)

\* Lines that are neither session metadata nor user messages and that the
\* loop passes over.
UnrelatedLines == {BlankLine, InvalidLine, OtherEvent, AssistantMessage}

\* The lines of a well-formed log: every line is blank, not JSON, or an event
\* (an object with an object payload), and every session_meta event carries
\* a working directory and a parseable timestamp.
ValidLines == UnrelatedLines
              \cup {MetaGood, MetaSecond, UserGenuine, UserNoise, UserNoiseThenText, UserTagOnly}

LineAlphabet == ValidLines
                \cup {NonObjectLine, ItemBadPayload, MetaBadTs, MetaNumTs, MetaNoCwd}

Logs == UNION {[1..n -> LineAlphabet] : n \in 0..MaxLines}

Unread == [outcome |-> "unread", rec |-> <<>>]

IdleLoad ==
    /\ ls_log = <<>>
    /\ ls_result = Unread
    /\ ls_prev = "none"

IdlePicker ==
    /\ pc = "Exited"
    /\ summaries = <<>>
    /\ current = 0
    /\ top = 0
    /\ total = 0
    /\ status_message = None
    /\ status_row = None
    /\ visible = 1
    /\ key = None
    /\ target = <<>>
    /\ deleted = FALSE
    /\ selection = <<>>
    /\ allow_delete = FALSE
    /\ files = {}

IdleGather ==
    /\ gs_store = <<>>
    /\ gs_query = [current_dir |-> <<>>, git_context |-> <<>>,
                   require_git_lookup |-> FALSE]
    /\ gs_i = 1
    /\ gs_summaries = <<>>
    /\ gs_cache = <<>>
    /\ gs_pc = "returned"
    /\ gs_limit = <<>>
    /\ gs_result = <<>>

IdleResolver ==
    /\ rs_disk = <<>>
    /\ rs_cache = <<>>
    /\ rs_log = <<>>
    /\ rs_ret = <<>>

IdlePure ==
    /\ pf_arg = <<>>
    /\ pf_cap = MAX_PROMPT_LENGTH
    /\ pf_out = <<>>

InitLoad ==
    /\ ls_log \in Logs
    /\ ls_result = Unread
    /\ ls_prev = "none"

\* load_session(file_path) on the file as it is now.
Load ==
    /\ ls_result = Unread
    /\ ls_result' = load_session(1, ls_log)
    /\ UNCHANGED <<ls_log, ls_prev>>
    /\ UNCHANGED <<pickerVars, gatherVars, pureVars, resolverVars>>

\* Another process inserts an unrelated line before line i of the file.
InsertUnrelated ==
    /\ ls_result # Unread
    /\ Len(ls_log) < MaxLines
    /\ \E i \in 1..(Len(ls_log) + 1), u \in UnrelatedLines :
          ls_log' = SubSeq(ls_log, 1, i - 1) \o <<u>> \o SubSeq(ls_log, i, Len(ls_log))
    /\ ls_prev' = ls_result.outcome
    /\ ls_result' = Unread
    /\ UNCHANGED <<pickerVars, gatherVars, pureVars, resolverVars>>

\* ... removes an unrelated line.
RemoveUnrelated ==
    /\ ls_result # Unread
    /\ \E i \in 1..Len(ls_log) :
          /\ ls_log[i] \in UnrelatedLines
          /\ ls_log' = SubSeq(ls_log, 1, i - 1) \o SubSeq(ls_log, i + 1, Len(ls_log))
    /\ ls_prev' = ls_result.outcome
    /\ ls_result' = Unread
    /\ UNCHANGED <<pickerVars, gatherVars, pureVars, resolverVars>>

\* ... moves an unrelated line past a neighbour.
MoveUnrelated ==
    /\ ls_result # Unread
    /\ \E i \in 1..(Len(ls_log) - 1) :
          /\ ls_log[i] \in UnrelatedLines \/ ls_log[i + 1] \in UnrelatedLines
          /\ ls_log[i] # ls_log[i + 1]
          /\ ls_log' = [ls_log EXCEPT ![i] = ls_log[i + 1], ![i + 1] = ls_log[i]]
    /\ ls_prev' = ls_result.outcome
    /\ ls_result' = Unread
    /\ UNCHANGED <<pickerVars, gatherVars, pureVars, resolverVars>>

NextLoad ==
    \/ Load
    \/ InsertUnrelated
    \/ RemoveUnrelated
    \/ MoveUnrelated

InitSpecLoad == InitLoad /\ IdlePicker /\ IdleGather /\ IdlePure /\ IdleResolver

SpecLoad == InitSpecLoad /\ [][NextLoad]_vars

(***************************************************************************)
(* gather_summaries over a store of log files: lines 263-307, with the     *)
(* resolver detect_git_metadata (lines 199-242) as the environment.        *)
(***************************************************************************)
RepoHttps == "https://h.io/A/r"
RepoSsh == "git@h.io:a/r.git"
RepoOther == "https://h.io/a/s.git"

\* A log that yields a record: one session_meta event, one user message.
SessionLog(cwd, ts, id, git) == <<SessionMeta(<<cwd>>, ts, id, git), UserGenuine>>

LogProj == SessionLog(<<"work", "proj">>, Ts("Z", 1, 0), "s1", Git("main", None))
LogSub == SessionLog(<<"work", "ln", "sub">>, Ts("offset", 2, 1), "s2", NoGit)
LogOtherDev == SessionLog(<<"work", "other">>, Ts("Z", 2, 0), "s3", Git("dev", RepoOther))
LogOtherMain == SessionLog(<<"work", "other">>, Ts("naive", 3, 0), "s4", Git("main", RepoSsh))
LogNoMeta == <<UserGenuine>>
LogNonObject == <<MetaGood, NonObjectLine>>

StoreAlphabet == {LogProj, LogSub, LogOtherDev, LogOtherMain, LogNoMeta, LogNonObject}

Stores == UNION {[1..n -> StoreAlphabet] : n \in 0..MaxFiles}

\* The values of the argument git_context: None or a GitContext.
GitContexts == {<<>>, <<GitContext("main", None)>>, <<GitContext("main", RepoHttps)>>,
                <<GitContext(None, RepoHttps)>>, <<GitContext(None, None)>>}

\* What detect_git_metadata may compute for a directory (lines 201-242):
\* nothing (no such path, no git, no repository), a branch with the remote's
\* URL, or a branch with the top-level path when there is no remote.
ResolverResults == {GitContext(None, None), GitContext("main", RepoSsh),
                    GitContext("dev", RepoOther), GitContext("main", "/work/proj")}

CurrentDirs == {<<"work", "ln">>, <<"work", "proj", "sub">>}

\* The values of the argument limit (--limit takes any integer).
Limits == {<<>>, <<-1>>, <<0>>, <<1>>, <<MaxFiles>>}

\* str(path) of a resolved path is the key of the lru_cache.
CacheWith(cache, path, metadata) ==
    [p \in DOMAIN cache \cup {path} |-> IF p = path THEN metadata ELSE cache[p]]

\* The caller either leaves the cache empty or, as main does (lines 475-476
\* with 454-458), has obtained git_context from detect_git_metadata on the
\* current directory.
InitGather ==
    /\ gs_store \in Stores
    /\ \E current_dir \in CurrentDirs, git_context \in GitContexts,
          require_git_lookup \in BOOLEAN, from_resolver \in BOOLEAN :
          /\ from_resolver =>
                /\ git_context # <<>>
                /\ require_git_lookup
                /\ git_context[1].branch # None \/ git_context[1].repository # None
          /\ gs_query = [current_dir |-> current_dir, git_context |-> git_context,
                         require_git_lookup |-> require_git_lookup]
          /\ gs_cache = IF from_resolver
                        THEN CacheWith(<<>>, Resolve(current_dir), git_context[1])
                        ELSE <<>>
    /\ gs_i = 1
    /\ gs_summaries = <<>>
    /\ gs_pc = "scanning"
    /\ gs_limit = <<>>
    /\ gs_result = <<>>

\* Lines 272-274 with a load_session that raises: the exception leaves
\* gather_summaries.
FileRaises ==
    /\ gs_pc = "scanning"
    /\ gs_i <= Len(gs_store)
    /\ load_session(gs_i, gs_store[gs_i]).outcome = "raised"
    /\ gs_pc' = "raised"
    /\ UNCHANGED <<gs_store, gs_query, gs_i, gs_summaries, gs_cache, gs_limit, gs_result>>
    /\ UNCHANGED <<pickerVars, loadVars, pureVars, resolverVars>>

\* Lines 272-274: no record, next file.
FileSkipped ==
    /\ gs_pc = "scanning"
    /\ gs_i <= Len(gs_store)
    /\ load_session(gs_i, gs_store[gs_i]).outcome = "none"
    /\ gs_i' = gs_i + 1
    /\ UNCHANGED <<gs_store, gs_query, gs_summaries, gs_cache, gs_pc, gs_limit, gs_result>>
    /\ UNCHANGED <<pickerVars, loadVars, pureVars, resolverVars>>

\* Lines 286-301 for a record (after any back-fill).
Decide(summary) ==
    /\ gs_summaries' = IF Include(summary, gs_query.current_dir, gs_query.git_context)
                       THEN Append(gs_summaries, summary)
                       ELSE gs_summaries
    /\ gs_i' = gs_i + 1

\* Lines 272-301 for a record that needs no lookup.
FileDecided ==
    /\ gs_pc = "scanning"
    /\ gs_i <= Len(gs_store)
    /\ \E loaded \in {load_session(gs_i, gs_store[gs_i])} :
          /\ loaded.outcome = "record"
          /\ ~NeedsLookup(loaded.rec[1], gs_query.git_context, gs_query.require_git_lookup)
          /\ Decide(loaded.rec[1])
    /\ UNCHANGED <<gs_store, gs_query, gs_cache, gs_pc, gs_limit, gs_result>>
    /\ UNCHANGED <<pickerVars, loadVars, pureVars, resolverVars>>

\* Lines 272-301 for a record whose git fields are looked up: the resolver
\* answers from its cache, or computes (and caches) a result.
FileLookedUp ==
    /\ gs_pc = "scanning"
    /\ gs_i <= Len(gs_store)
    /\ \E loaded \in {load_session(gs_i, gs_store[gs_i])} :
          /\ loaded.outcome = "record"
          /\ NeedsLookup(loaded.rec[1], gs_query.git_context, gs_query.require_git_lookup)
          /\ \E metadata \in IF loaded.rec[1].cwd \in DOMAIN gs_cache
                              THEN {gs_cache[loaded.rec[1].cwd]}
                              ELSE ResolverResults :
                /\ gs_cache' = CacheWith(gs_cache, loaded.rec[1].cwd, metadata)
                /\ \E filled \in {BackFill(loaded.rec[1], metadata)} : Decide(filled)
    /\ UNCHANGED <<gs_store, gs_query, gs_pc, gs_limit, gs_result>>
    /\ UNCHANGED <<pickerVars, loadVars, pureVars, resolverVars>>

\* An insertion that puts x before the elements with an equal timestamp.
InsertSorted_TiesFirst(sorted, x) ==
    LET k == Cardinality({j \in 1..Len(sorted) :
                 Instant(sorted[j].timestamp) > Instant(x.timestamp)})
    IN  SubSeq(sorted, 1, k) \o <<x>> \o SubSeq(sorted, k + 1, Len(sorted))

\* list.sort(key=timestamp, reverse=True): a stable sort, so records with
\* equal timestamps keep their order.  InsertSorted puts x behind every
\* element whose timestamp is not earlier than its own.
InsertSorted(sorted, x) ==
    LET k == Cardinality({j \in 1..Len(sorted) :
                 Instant(sorted[j].timestamp) >= Instant(x.timestamp)})
    IN  SubSeq(sorted, 1, k) \o <<x>> \o SubSeq(sorted, k + 1, Len(sorted))

\* The first n elements of s, sorted.
RECURSIVE SortFirst(_, _)
SortFirst(s, n) ==
    IF n = 0 THEN <<>>
    ELSE The({InsertSorted(front, s[n]) : front \in {SortFirst(s, n - 1)}})

SortNewestFirst(s) == SortFirst(s, Len(s))

\* s[:n] of Python, n negative included.
SliceTo(s, n) ==
    IF n >= 0 THEN SubSeq(s, 1, Min(n, Len(s)))
    ELSE SubSeq(s, 1, Max(Len(s) + n, 0))

\* Lines 303-307.
Finish ==
    /\ gs_pc = "scanning"
    /\ gs_i > Len(gs_store)
    /\ \E limit \in Limits, sorted \in {SortNewestFirst(gs_summaries)} :
          /\ gs_limit' = limit
          /\ gs_result' = IF limit # <<>> THEN SliceTo(sorted, limit[1]) ELSE sorted
    /\ gs_pc' = "returned"
    /\ UNCHANGED <<gs_store, gs_query, gs_i, gs_summaries, gs_cache>>
    /\ UNCHANGED <<pickerVars, loadVars, pureVars, resolverVars>>

NextGather ==
    \/ FileRaises
    \/ FileSkipped
    \/ FileDecided
    \/ FileLookedUp
    \/ Finish

InitSpecGather == InitGather /\ IdlePicker /\ IdleLoad /\ IdlePure /\ IdleResolver

SpecGather == InitSpecGather /\ [][NextGather]_vars

(***************************************************************************)
(* summarize_prompt (lines 92-108) and normalize_repo_identifier (lines    *)
(* 173-196) applied to bounded inputs.                                     *)
(***************************************************************************)
PromptAlphabet == {"a", " ", "<", ">", "\n"}

Prompts == UNION {[1..n -> PromptAlphabet] : n \in 0..MaxPromptLen}

InitSummarize ==
    /\ pf_arg \in Prompts
    /\ pf_cap \in 1..MaxCap
    /\ pf_out = <<>>

\* summarize_prompt(pf_arg, pf_cap)
Summarize ==
    /\ pf_out = <<>>
    /\ pf_out' = <<summarize_prompt(pf_arg, pf_cap)>>
    /\ UNCHANGED <<pf_arg, pf_cap>>
    /\ UNCHANGED <<pickerVars, loadVars, gatherVars, resolverVars>>

\* The caller passes the summary it got as the next prompt.
SummarizeAgain ==
    /\ Len(pf_out) = 1
    /\ pf_out' = Append(pf_out, summarize_prompt(pf_out[1], pf_cap))
    /\ UNCHANGED <<pf_arg, pf_cap>>
    /\ UNCHANGED <<pickerVars, loadVars, gatherVars, resolverVars>>

NextSummarize ==
    \/ Summarize
    \/ SummarizeAgain

InitSpecSummarize == InitSummarize /\ IdlePicker /\ IdleLoad /\ IdleGather /\ IdleResolver

SpecSummarize == InitSpecSummarize /\ [][NextSummarize]_vars

\* The pieces repository identifiers are made of.
IdentifierTokens == {Chars("git@"), Chars("h"), Chars("R"), Chars("/"), Chars(":"),
                     Chars("://"), Chars(".git")}

Identifiers == {Join(tokens, <<>>) :
                tokens \in UNION {[1..n -> IdentifierTokens] : n \in 0..MaxTokens}}

InitNormalize ==
    /\ pf_arg \in Identifiers
    /\ pf_cap = MAX_PROMPT_LENGTH
    /\ pf_out = <<>>

\* normalize_repo_identifier(pf_arg)
Normalize ==
    /\ pf_out = <<>>
    /\ pf_out' = <<NormalizeChars(pf_arg)>>
    /\ UNCHANGED <<pf_arg, pf_cap>>
    /\ UNCHANGED <<pickerVars, loadVars, gatherVars, resolverVars>>

\* normalize_repo_identifier on the normal form it returned.
NormalizeAgain ==
    /\ Len(pf_out) = 1
    /\ pf_out[1] # <<>>
    /\ pf_out' = Append(pf_out, NormalizeChars(pf_out[1][1]))
    /\ UNCHANGED <<pf_arg, pf_cap>>
    /\ UNCHANGED <<pickerVars, loadVars, gatherVars, resolverVars>>

NextNormalize ==
    \/ Normalize
    \/ NormalizeAgain

InitSpecNormalize == InitNormalize /\ IdlePicker /\ IdleLoad /\ IdleGather /\ IdleResolver

SpecNormalize == InitSpecNormalize /\ [][NextNormalize]_vars

(***************************************************************************)
(* detect_git_metadata (lines 199-242) with its cache, called by           *)
(* gather_summaries (line 280) and detect_current_git_context (line 455),  *)
(* while the repositories on disk change.                                  *)
(***************************************************************************)
\* The state of a directory: whether it exists and what the three git
\* commands print for it (None: the command fails or prints nothing).
Dir(exists, branch, remote, toplevel) ==
    [exists |-> exists, branch |-> branch, remote |-> remote, toplevel |-> toplevel]

DirStates == {Dir(FALSE, None, None, None),
              Dir(TRUE, None, None, None),
              Dir(TRUE, "main", RepoSsh, "/work/proj"),
              Dir(TRUE, "dev", None, "/work/proj")}

ResolvedPaths == {<<"work", "proj">>, <<"work", "other">>}

Callers == {"gather_summaries", "detect_current_git_context"}

\* Lines 201-242 on a directory in state dir: the queries put to git, in
\* order, with their answers.
GitQueries(path, dir) ==
    IF ~dir.exists THEN <<>>
    ELSE <<[path |-> path, query |-> "branch", answer |-> dir.branch],
           [path |-> path, query |-> "remote", answer |-> dir.remote]>>
         \o (IF dir.remote = None
             THEN <<[path |-> path, query |-> "toplevel", answer |-> dir.toplevel]>>
             ELSE <<>>)

\* Lines 201-242: the GitContext computed from the answers.
ComputedContext(dir) ==
    IF ~dir.exists THEN GitContext(None, None)
    ELSE GitContext(dir.branch, IF dir.remote = None THEN dir.toplevel ELSE dir.remote)

InitResolver ==
    /\ rs_disk \in [ResolvedPaths -> DirStates]
    /\ rs_cache = <<>>
    /\ rs_log = <<>>
    /\ rs_ret = <<>>

\* A resolver that asks git on every call.
DetectGitMetadata_NoCache ==
    /\ \E path \in ResolvedPaths, caller \in Callers :
          /\ rs_log' = rs_log \o GitQueries(path, rs_disk[path])
          /\ rs_cache' = CacheWith(rs_cache, path, ComputedContext(rs_disk[path]))
          /\ rs_ret' = <<[path |-> path, caller |-> caller,
                          hit |-> path \in DOMAIN rs_cache,
                          context |-> ComputedContext(rs_disk[path])]>>
    /\ UNCHANGED rs_disk
    /\ UNCHANGED <<pickerVars, loadVars, gatherVars, pureVars>>

\* A call detect_git_metadata(str(path)): lines 199-242.
DetectGitMetadata ==
    /\ \E path \in ResolvedPaths, caller \in Callers :
          IF path \in DOMAIN rs_cache
          THEN /\ rs_ret' = <<[path |-> path, caller |-> caller, hit |-> TRUE,
                               context |-> rs_cache[path]]>>
               /\ UNCHANGED <<rs_cache, rs_log>>
          ELSE /\ rs_log' = rs_log \o GitQueries(path, rs_disk[path])
               /\ rs_cache' = CacheWith(rs_cache, path, ComputedContext(rs_disk[path]))
               /\ rs_ret' = <<[path |-> path, caller |-> caller, hit |-> FALSE,
                               context |-> ComputedContext(rs_disk[path])]>>
    /\ UNCHANGED rs_disk
    /\ UNCHANGED <<pickerVars, loadVars, gatherVars, pureVars>>

\* Somebody switches branches, adds a remote, removes or creates a directory.
RepositoryChanges ==
    /\ \E path \in ResolvedPaths, dir \in DirStates :
          /\ dir # rs_disk[path]
          /\ rs_disk' = [rs_disk EXCEPT ![path] = dir]
    /\ UNCHANGED <<rs_cache, rs_log, rs_ret>>
    /\ UNCHANGED <<pickerVars, loadVars, gatherVars, pureVars>>

NextResolver ==
    \/ DetectGitMetadata
    \/ RepositoryChanges

InitSpecResolver == InitResolver /\ IdlePicker /\ IdleLoad /\ IdleGather /\ IdlePure

SpecResolver == InitSpecResolver /\ [][NextResolver]_vars

Init == InitPicker /\ IdleLoad /\ IdleGather /\ IdlePure /\ IdleResolver

Next ==
    \/ MoveCursor
    \/ Enter
    \/ StartDelete
    \/ Quit
    \/ IgnoreKey
    \/ InterruptBrowsing
    \/ InterruptConfirming
    \/ ConfirmYes
    \/ ApplyDelete
    \/ ConfirmNo
    \/ ConfirmOther

Spec == Init /\ [][Next]_vars
(***************************************************************************)
(* Properties of the picker, checked under Spec.                           *)
(***************************************************************************)
\* The position of record r in list s (0 when it is not there).
IndexOf(s, r) == IF \E i \in 1..Len(s) : s[i] = r
                 THEN CHOOSE i \in 1..Len(s) : s[i] = r
                 ELSE 0

\* s without its record r, the others in their order.
Without(s, r) == SelectSeq(s, LAMBDA x : x # r)

\* C1: on the yes-key the delete handler runs while the list is still intact
\* (the step into DeleteReturned changes neither the list nor the counter);
\* the list changes only in the step after the handler returned, only when
\* it reported success and the target's file is gone from storage, and then
\* exactly the target leaves the list; when the handler reports no deletion,
\* list, cursor and storage stay as they are and the picker is back in
\* Browsing showing the handler's notice, "Failed to delete" whenever the
\* file is still there.
C1_DeleteBeforeRemove ==
    [][ /\ (pc = "ConfirmingDelete" /\ pc' = "DeleteReturned")
              => /\ summaries' = summaries
                 /\ total' = total
                 /\ target[1] = summaries[current + 1]
        /\ (summaries' # summaries)
              => /\ pc = "DeleteReturned"
                 /\ deleted
                 /\ target[1] \notin files
                 /\ summaries' = Without(summaries, target[1])
                 /\ Len(summaries') = Len(summaries) - 1
        /\ (pc = "DeleteReturned" /\ ~deleted)
              => /\ summaries' = summaries
                 /\ current' = current
                 /\ files' = files
                 /\ pc' = "Browsing"
                 /\ status_row' \in {MsgFailed, MsgAlreadyRemoved}
                 /\ (target[1] \in files => status_row' = MsgFailed)
      ]_vars

\* C1 witness: a confirmed delete has failed; the picker is browsing again, the
\* failure notice on screen, the target record still in the list.
C1_Witness ==
    /\ pc = "Browsing"
    /\ key \in KeysYes
    /\ status_row = MsgFailed
    /\ ~deleted
    /\ Len(summaries) = MaxSessions
    /\ IndexOf(summaries, target[1]) = current + 1
    /\ target[1] \in files

MoveKeys == KeysUp \cup KeysDown \cup {"KEY_PPAGE", "KEY_NPAGE"}

\* C6: a movement key read in Browsing over a list of n >= 1 records leaves
\* the list unchanged; up goes from i to i-1, from 0 to n-1; down goes from i
\* to i+1, from n-1 to 0; page-up goes to max(i - visible, 0) and page-down
\* to min(i + visible, n-1), visible being the window size of that cycle.
C6_CursorMovement ==
    [][ (pc = "Browsing" /\ pc' = "Browsing" /\ key' \in MoveKeys)
          => LET n == Len(summaries)
                 i == current
             IN  /\ n >= 1
                 /\ summaries' = summaries
                 /\ key' \in KeysUp
                       => current' = (IF i = 0 THEN n - 1 ELSE i - 1)
                 /\ key' \in KeysDown
                       => current' = (IF i = n - 1 THEN 0 ELSE i + 1)
                 /\ key' = "KEY_PPAGE"
                       => current' = (IF i - visible > 0 THEN i - visible ELSE 0)
                 /\ key' = "KEY_NPAGE"
                       => current' = (IF i + visible < n - 1 THEN i + visible
                                      ELSE n - 1)
      ]_vars

\* C6 witness: the up key has just wrapped the cursor from the first to the
\* last record of a full list.
C6_Witness ==
    /\ pc = "Browsing"
    /\ key \in KeysUp
    /\ Len(summaries) = MaxSessions
    /\ current = Len(summaries) - 1
    /\ top > 0

\* C7: the step after a successful delete leaves the picker Exited with no
\* selection when it emptied the list, and otherwise in Browsing with the
\* cursor on an index of the list; no step at all starts in Exited.
C7_DeleteLastExits ==
    [][ /\ pc # "Exited"
        /\ (pc = "DeleteReturned" /\ deleted)
              => IF Len(summaries') = 0
                 THEN pc' = "Exited" /\ selection' = <<>>
                 ELSE /\ pc' = "Browsing"
                      /\ current' \in 0..(Len(summaries') - 1)
      ]_vars

\* C7 witness: the last record was deleted and the picker has exited with no
\* selection.
C7_Witness ==
    /\ pc = "Exited"
    /\ summaries = <<>>
    /\ deleted
    /\ selection = <<>>
    /\ files = {}

\* C10 as stated: an interrupt in Browsing or in ConfirmingDelete ends the
\* picker at once, Exited with no selection, list and storage untouched.
C10_InterruptExits ==
    [][ (InterruptBrowsing \/ InterruptConfirming)
          => /\ pc' = "Exited"
             /\ selection' = <<>>
             /\ summaries' = summaries
             /\ files' = files
      ]_vars

\* C10 as amended: an interrupt in Browsing ends the picker at once, Exited
\* with no selection; an interrupt in ConfirmingDelete cancels the pending
\* delete and returns to Browsing with the "Deletion cancelled." message, the
\* cursor where it was; neither deletes a file or changes the list.
C10_InterruptCancels ==
    [][ /\ InterruptBrowsing
              => /\ pc' = "Exited"
                 /\ selection' = <<>>
                 /\ summaries' = summaries
                 /\ total' = total
                 /\ files' = files
        /\ InterruptConfirming
              => /\ pc' = "Browsing"
                 /\ status_row' = MsgCancelled
                 /\ selection' = <<>>
                 /\ current' = current
                 /\ summaries' = summaries
                 /\ total' = total
                 /\ files' = files
      ]_vars

\* C10 witness: back in Browsing with "Deletion cancelled." although the last
\* key read is not a no-key: the confirmation's getch was interrupted.
C10_Witness ==
    /\ pc = "Browsing"
    /\ status_row = MsgCancelled
    /\ key \notin KeysNo
    /\ target # <<>>
    /\ IndexOf(summaries, target[1]) = current + 1

(***************************************************************************)
(* Properties of load_session, checked under SpecLoad.                     *)
(***************************************************************************)
ValidLog(log) == \A i \in 1..Len(log) : log[i] \in ValidLines

IsMeta(line) == line.json = "object" /\ line.type = "session_meta"

IsUserMessage(line) ==
    /\ line.json = "object"
    /\ line.type = "response_item"
    /\ line.payload = "object"
    /\ line.ptype = "message"
    /\ line.role = "user"

NonNoise(line) == IsUserMessage(line) /\ ~is_noise_prompt(extract_prompt(line.content))

\* A non-noise user message that has a summary.
Usable(line) ==
    /\ NonNoise(line)
    /\ summarize_prompt(extract_prompt(line.content), MAX_PROMPT_LENGTH) # <<>>

\* Editing unrelated lines has not changed whether a record is produced.
SameAsBeforeEdit == ls_prev # "none" => ((ls_result.outcome = "record") <=> (ls_prev = "record"))

\* C3, as stated: for a valid log, load_session produces a record if and only
\* if the log contains a session-metadata event and a non-noise user message,
\* wherever the two stand, and edits of unrelated lines do not change that.
C3_RecordIffBoth ==
    (ls_result # Unread /\ ValidLog(ls_log)) =>
        /\ (ls_result.outcome = "record") <=>
              /\ \E i \in 1..Len(ls_log) : IsMeta(ls_log[i])
              /\ \E j \in 1..Len(ls_log) : NonNoise(ls_log[j])
        /\ SameAsBeforeEdit

\* C3, amended: for a valid log, load_session produces a record if and only
\* if a session-metadata event stands before the first user message that is
\* non-noise and has a non-empty summary; edits of unrelated lines do not
\* change whether a record is produced.
C3_RecordIffMetaBeforePrompt ==
    (ls_result # Unread /\ ValidLog(ls_log)) =>
        /\ (ls_result.outcome = "record") <=>
              \E j \in 1..Len(ls_log) :
                  /\ Usable(ls_log[j])
                  /\ \A k \in 1..(j - 1) : ~Usable(ls_log[k])
                  /\ \E i \in 1..(j - 1) : IsMeta(ls_log[i])
        /\ SameAsBeforeEdit

\* A valid log of full length that has been edited and read again, gave a
\* record before and gives one now.
C3_Witness ==
    /\ ls_result.outcome = "record"
    /\ ls_prev = "record"
    /\ ValidLog(ls_log)
    /\ Len(ls_log) = MaxLines
    /\ \E i \in 1..Len(ls_log) : ls_log[i] \in UnrelatedLines

\* The text of a message behind its first line.
AfterFirstLine(p) == SubSeq(p, FirstIn(p, LineBreaks) + 1, Len(p))

\* A user message whose first line is a noise block and whose following text
\* is genuine.
NoiseThenGenuine(line) ==
    /\ IsUserMessage(line)
    /\ \A p \in {extract_prompt(line.content)} :
          /\ FirstIn(p, LineBreaks) <= Len(p)
          /\ is_noise_prompt(SubSeq(p, 1, FirstIn(p, LineBreaks) - 1))
          /\ ~is_noise_prompt(AfterFirstLine(p))
          /\ summarize_prompt(AfterFirstLine(p), MAX_PROMPT_LENGTH) # <<>>

\* C4: when the first user message of a valid log starts with a noise line
\* and goes on with genuine text, and session metadata stands before it, the
\* log yields a record whose summary is the genuine line behind the noise.
C4_NoiseLineSkipped ==
    \A j \in 1..Len(ls_log) :
        ( /\ ls_result # Unread
          /\ ValidLog(ls_log)
          /\ NoiseThenGenuine(ls_log[j])
          /\ \A k \in 1..(j - 1) : ~IsUserMessage(ls_log[k])
          /\ \E i \in 1..(j - 1) : IsMeta(ls_log[i]) )
        => /\ ls_result.outcome = "record"
           /\ summarize_prompt(ls_result.rec[1].prompt, MAX_PROMPT_LENGTH)
                 = summarize_prompt(AfterFirstLine(extract_prompt(ls_log[j].content)),
                                    MAX_PROMPT_LENGTH)

\* C5: whatever the file holds, load_session does not end in an exception.
C5_NeverRaises == ls_result.outcome # "raised"

(***************************************************************************)
(* Properties of gather_summaries, checked under SpecGather.               *)
(***************************************************************************)
\* The files the loop is through with.
Processed == 1..(gs_i - 1)

\* The record of file i is in the list.
Kept(i) == \E k \in 1..Len(gs_summaries) : gs_summaries[k].file_path = i

Known(x) == x \notin {None, ""}

\* The query has an authoritative git context with a known branch.
AuthoritativeBranch ==
    /\ gs_query.git_context # <<>>
    /\ gs_query.require_git_lookup
    /\ Known(gs_query.git_context[1].branch)

\* C2, as stated: with an authoritative git context of branch B, a record
\* whose log carries branch B and no repository is included whatever the query
\* repository and the resolver's result are, and a record whose log carries
\* another branch is excluded.
C2_BranchMatch ==
    AuthoritativeBranch =>
        \A i \in Processed : \A loaded \in {load_session(i, gs_store[i])} :
            loaded.outcome = "record" =>
                /\ ( /\ loaded.rec[1].git_branch = gs_query.git_context[1].branch
                     /\ loaded.rec[1].git_repository = None ) => Kept(i)
                /\ ( /\ loaded.rec[1].git_branch # None
                     /\ loaded.rec[1].git_branch # gs_query.git_context[1].branch )
                   => ~Kept(i)

\* C2, amended: with an authoritative git context of branch B, a record whose
\* log carries branch B and no repository is included if and only if the query
\* repository is unknown, or the resolver gives no repository for the record's
\* working directory, or the one it gives has the query repository's normal
\* form; a record whose log carries another branch is excluded.
C2_BranchMatchAfterBackFill ==
    AuthoritativeBranch =>
        \A i \in Processed : \A loaded \in {load_session(i, gs_store[i])} :
            loaded.outcome = "record" =>
                /\ ( /\ loaded.rec[1].git_branch = gs_query.git_context[1].branch
                     /\ loaded.rec[1].git_repository = None )
                   => ( Kept(i) <=>
                          \/ ~Known(gs_query.git_context[1].repository)
                          \/ ~Known(gs_cache[loaded.rec[1].cwd].repository)
                          \/ normalize_repo_identifier(gs_cache[loaded.rec[1].cwd].repository)
                               = normalize_repo_identifier(gs_query.git_context[1].repository) )
                /\ ( /\ loaded.rec[1].git_branch # None
                     /\ loaded.rec[1].git_branch # gs_query.git_context[1].branch )
                   => ~Kept(i)

\* A record with the query's branch and no repository in its log has been
\* dropped because the resolver gave another repository than the query's, and
\* one with the same repository in another notation has been kept.
C2_Witness ==
    /\ AuthoritativeBranch
    /\ Known(gs_query.git_context[1].repository)
    /\ \E i \in Processed : \E loaded \in {load_session(i, gs_store[i])} :
          /\ loaded.outcome = "record"
          /\ loaded.rec[1].git_branch = gs_query.git_context[1].branch
          /\ loaded.rec[1].git_repository = None
          /\ Known(gs_cache[loaded.rec[1].cwd].repository)
          /\ ~Kept(i)
    /\ \E i \in Processed : \E loaded \in {load_session(i, gs_store[i])} :
          /\ loaded.outcome = "record"
          /\ loaded.rec[1].git_branch = gs_query.git_context[1].branch
          /\ Known(loaded.rec[1].git_repository)
          /\ loaded.rec[1].git_repository # gs_query.git_context[1].repository
          /\ Kept(i)

\* x comes before y in the order newest first, discovery order among equals.
Before(x, y) ==
    \/ Instant(x.timestamp) > Instant(y.timestamp)
    \/ /\ Instant(x.timestamp) = Instant(y.timestamp)
       /\ x.file_path < y.file_path

\* C8: the returned list holds survivors only, ordered by non-increasing
\* instant, discovery order among equal instants; without a limit it holds
\* all of them, and with a limit L >= 0 it holds the first min(L, n) of that
\* order.
C8_NewestFirstThenLimit ==
    gs_pc = "returned" =>
        /\ \A a \in 1..Len(gs_result) :
              /\ \E k \in 1..Len(gs_summaries) : gs_summaries[k] = gs_result[a]
              /\ \A b \in (a + 1)..Len(gs_result) : Before(gs_result[a], gs_result[b])
        /\ gs_limit = <<>> => Len(gs_result) = Len(gs_summaries)
        /\ (gs_limit # <<>> /\ gs_limit[1] >= 0) =>
              /\ Len(gs_result) = Min(gs_limit[1], Len(gs_summaries))
              /\ \A k \in 1..Len(gs_summaries) :
                    \/ \E a \in 1..Len(gs_result) : gs_result[a] = gs_summaries[k]
                    \/ \A a \in 1..Len(gs_result) : Before(gs_result[a], gs_summaries[k])

\* Two survivors with the same instant in different notations, limit 1: the
\* one discovered first is returned.
C8_Witness ==
    /\ gs_pc = "returned"
    /\ gs_limit = <<1>>
    /\ Len(gs_summaries) = 2
    /\ Instant(gs_summaries[1].timestamp) = Instant(gs_summaries[2].timestamp)
    /\ gs_summaries[1].timestamp # gs_summaries[2].timestamp
    /\ gs_result = <<gs_summaries[1]>>

\* Path a is path b or an ancestor of it.
AncestorOrEqual(a, b) == Len(a) <= Len(b) /\ \A k \in 1..Len(a) : a[k] = b[k]

\* C9: without a git context a record is included if and only if its working
\* directory is an ancestor-or-equal of the current directory or the current
\* directory is an ancestor-or-equal of it, both resolved.
C9_PathRelevance ==
    gs_query.git_context = <<>> =>
        \A i \in Processed : \A loaded \in {load_session(i, gs_store[i])} :
            loaded.outcome = "record" =>
                ( Kept(i) <=>
                    \/ AncestorOrEqual(loaded.rec[1].cwd, Resolve(gs_query.current_dir))
                    \/ AncestorOrEqual(Resolve(gs_query.current_dir), loaded.rec[1].cwd) )

\* Without a git context, a record of a subdirectory of the current directory
\* and one of an ancestor have been kept and one of a sibling dropped.
C9_Witness ==
    /\ gs_query.git_context = <<>>
    /\ \E i \in Processed : \E loaded \in {load_session(i, gs_store[i])} :
          /\ loaded.outcome = "record"
          /\ Len(loaded.rec[1].cwd) > Len(Resolve(gs_query.current_dir))
          /\ Kept(i)
    /\ \E i \in Processed : \E loaded \in {load_session(i, gs_store[i])} :
          /\ loaded.outcome = "record"
          /\ ~Kept(i)

(***************************************************************************)
(* Further properties of the picker, checked under Spec.                   *)
(***************************************************************************)
\* C11: when the delete handler has found the record's file already missing
\* (its notice says so), the picker does not take the failure path: the
\* record does not stay in the list.
C11_AlreadyRemovedNotFailure ==
    [][ (pc = "DeleteReturned" /\ status_message = MsgAlreadyRemoved)
            => \A i \in 1..Len(summaries') : summaries'[i] # target[1] ]_vars

(***************************************************************************)
(* Further properties of gather_summaries, checked under SpecGather.       *)
(***************************************************************************)
\* The record's working directory and the current directory, resolved, are
\* one an ancestor-or-equal of the other.
PathRelevant(rec) ==
    \/ AncestorOrEqual(rec.cwd, Resolve(gs_query.current_dir))
    \/ AncestorOrEqual(Resolve(gs_query.current_dir), rec.cwd)

CollapsedLine(p) == StripTags(p) = p /\ Join(Split(p), <<" ">>) = p

\* C13, as stated: the summary has at most cap characters; a collapsed line
\* of exactly cap characters is returned unchanged; a collapsed line of
\* cap + 1 characters gives a summary of exactly cap characters that ends in
\* the ellipsis.
C13_CapExact ==
    pf_out # <<>> =>
        /\ Len(pf_out[1]) <= pf_cap
        /\ (CollapsedLine(pf_arg) /\ Len(pf_arg) = pf_cap) => pf_out[1] = pf_arg
        /\ (CollapsedLine(pf_arg) /\ Len(pf_arg) = pf_cap + 1) =>
              /\ Len(pf_out[1]) = pf_cap
              /\ pf_out[1][Len(pf_out[1])] = Ellipsis

\* C13, amended: the summary has at most cap characters; a collapsed line of
\* exactly cap characters is returned unchanged; a collapsed line of cap + 1
\* characters gives its first cap - 1 characters followed by the ellipsis,
\* cap characters in all, unless character cap - 1 is a space, which is
\* dropped, so that the summary has cap - 1 characters.
C13_CapAfterRStrip ==
    pf_out # <<>> =>
        /\ Len(pf_out[1]) <= pf_cap
        /\ (CollapsedLine(pf_arg) /\ Len(pf_arg) = pf_cap) => pf_out[1] = pf_arg
        /\ (CollapsedLine(pf_arg) /\ Len(pf_arg) = pf_cap + 1) =>
              /\ pf_out[1][Len(pf_out[1])] = Ellipsis
              /\ Len(pf_out[1]) = IF pf_cap > 1 /\ pf_arg[pf_cap - 1] = " "
                                  THEN pf_cap - 1
                                  ELSE pf_cap
              /\ \A i \in 1..(Len(pf_out[1]) - 1) : pf_out[1][i] = pf_arg[i]

\* A collapsed line one character over the cap whose character cap - 1 is a
\* space has been summarized.
C13_Witness ==
    /\ pf_out # <<>>
    /\ pf_cap > 1
    /\ CollapsedLine(pf_arg)
    /\ Len(pf_arg) = pf_cap + 1
    /\ pf_arg[pf_cap - 1] = " "
    /\ Len(pf_out[1]) = pf_cap - 1

(***************************************************************************)
(* Properties of normalize_repo_identifier, checked under SpecNormalize.   *)
(***************************************************************************)
\* The identifier does not take the path branch of lines 188-189.
NonPath(identifier) ==
    \A bare \in {WithoutScheme(Strip(identifier))} :
        ~StartsWith(bare, <<"~">>) /\ ~StartsWith(bare, <<"/">>)

\* C14: for a non-path identifier whose normal form is defined (and is no
\* path either), normalizing the normal form gives the normal form again.
C14_Idempotent ==
    (Len(pf_out) = 2 /\ NonPath(pf_arg) /\ NonPath(pf_out[1][1]))
        => pf_out[2] = pf_out[1]

(***************************************************************************)
(* Further properties of load_session, checked under SpecLoad.             *)
(***************************************************************************)
\* The first session-metadata event of a log that has one.
FirstMeta(log) ==
    log[CHOOSE i \in 1..Len(log) :
            IsMeta(log[i]) /\ \A k \in 1..(i - 1) : ~IsMeta(log[k])]

\* C15: the record of a valid log has the working directory, timestamp,
\* session id and git info of the first session-metadata event of the log.
C15_FirstMetaWins ==
    (ls_result.outcome = "record" /\ ValidLog(ls_log)) =>
        \A first \in {FirstMeta(ls_log)} :
            /\ ls_result.rec[1].cwd = Resolve(first.cwd[1])
            /\ ls_result.rec[1].timestamp = parse_timestamp(first.timestamp)
            /\ ls_result.rec[1].session_id = first.id
            /\ ls_result.rec[1].git_branch = first.git.branch
            /\ ls_result.rec[1].git_repository = first.git.repository_url

(***************************************************************************)
(* Back-fill properties of gather_summaries, checked under SpecGather.     *)
(***************************************************************************)
Authoritative == gs_query.git_context # <<>> /\ gs_query.require_git_lookup

\* The record rec of a log with each missing git field taken from the
\* resolver's answer for its working directory.
Filled(rec) ==
    [rec EXCEPT
        !.git_branch = IF rec.git_branch = None
                       THEN gs_cache[rec.cwd].branch ELSE rec.git_branch,
        !.git_repository = IF rec.git_repository = None
                           THEN gs_cache[rec.cwd].repository ELSE rec.git_repository]

\* The git rule of the query applied to a record's branch and repository.
GitRule(rec) ==
    \A context \in {gs_query.git_context[1]} :
        IF Known(context.branch)
        THEN /\ rec.git_branch = context.branch
             /\ \/ ~Known(context.repository)
                \/ ~Known(rec.git_repository)
                \/ normalize_repo_identifier(rec.git_repository)
                     = normalize_repo_identifier(context.repository)
        ELSE IF Known(context.repository)
        THEN \/ PathRelevant(rec)
             \/ ~Known(rec.git_repository)
             \/ normalize_repo_identifier(rec.git_repository)
                  = normalize_repo_identifier(context.repository)
        ELSE PathRelevant(rec)

\* What C16 says of a record rec of file i for which the resolver has to be
\* asked: it has been asked, the decision has been taken on the filled record,
\* and the filled record is the one kept.
BackFilled(i, rec) ==
    /\ rec.cwd \in DOMAIN gs_cache
    /\ Kept(i) <=> GitRule(Filled(rec))
    /\ \A k \in 1..Len(gs_summaries) :
          gs_summaries[k].file_path = i => gs_summaries[k] = Filled(rec)

\* C16, as stated: with an authoritative git context, every record that lacks
\* a branch or a repository in its log is back-filled from the resolver
\* before the decision, whatever the query knows; fields the log has stay.
C16_BackFillWheneverMissing ==
    Authoritative =>
        \A i \in Processed : \A loaded \in {load_session(i, gs_store[i])} :
            ( /\ loaded.outcome = "record"
              /\ \/ loaded.rec[1].git_branch = None
                 \/ loaded.rec[1].git_repository = None )
            => BackFilled(i, loaded.rec[1])

\* C16, amended: with an authoritative git context, a record is back-filled
\* from the resolver before the decision when its log lacks a branch, or
\* lacks a repository while the query's repository is known; fields the log
\* has stay.  Any other record is decided on, and kept with, the fields of
\* its log.
C16_BackFillWhenNeeded ==
    Authoritative =>
        \A i \in Processed : \A loaded \in {load_session(i, gs_store[i])} :
            loaded.outcome = "record" =>
                IF \/ loaded.rec[1].git_branch = None
                   \/ /\ loaded.rec[1].git_repository = None
                      /\ Known(gs_query.git_context[1].repository)
                THEN BackFilled(i, loaded.rec[1])
                ELSE /\ Kept(i) <=> GitRule(loaded.rec[1])
                     /\ \A k \in 1..Len(gs_summaries) :
                           gs_summaries[k].file_path = i
                               => gs_summaries[k] = loaded.rec[1]

\* With an authoritative context whose repository is unknown, a record with
\* a branch and no repository in its log has been kept as it is, the resolver
\* never asked about its directory, and a record without a branch has been
\* kept with the resolver's branch.
C16_Witness ==
    /\ Authoritative
    /\ ~Known(gs_query.git_context[1].repository)
    /\ \E k \in 1..Len(gs_summaries) :
          /\ gs_summaries[k].git_branch # None
          /\ gs_summaries[k].git_repository = None
          /\ gs_summaries[k].cwd \notin DOMAIN gs_cache
    /\ \E k \in 1..Len(gs_summaries) :
          /\ load_session(gs_summaries[k].file_path,
                          gs_store[gs_summaries[k].file_path]).rec[1].git_branch = None
          /\ gs_summaries[k].git_branch # None

(***************************************************************************)
(* Properties of the resolver's cache, checked under SpecResolver.         *)
(***************************************************************************)
\* The queries of kind q put to git about path.
QueriesOf(log, path, q) ==
    {n \in 1..Len(log) : log[n].path = path /\ log[n].query = q}

\* C17: git is asked about a path on the first resolution of the path only,
\* once for the branch, once for the remote URL, and for the top-level path
\* only when the remote query gave nothing; a call for a path resolved before
\* asks nothing and returns what the first call returned, whatever has
\* changed on disk since.
C17_QueriedOncePerPath ==
    [][ /\ \A path \in ResolvedPaths :
              /\ Cardinality(QueriesOf(rs_log', path, "branch")) <= 1
              /\ Cardinality(QueriesOf(rs_log', path, "remote")) <= 1
              /\ Cardinality(QueriesOf(rs_log', path, "toplevel")) <= 1
              /\ \A n \in QueriesOf(rs_log', path, "toplevel") :
                    \E m \in QueriesOf(rs_log', path, "remote") :
                        m < n /\ rs_log'[m].answer = None
              /\ path \in DOMAIN rs_cache =>
                    /\ path \in DOMAIN rs_cache'
                    /\ rs_cache'[path] = rs_cache[path]
        /\ (rs_ret' # rs_ret /\ rs_ret'[1].path \in DOMAIN rs_cache) =>
              /\ rs_log' = rs_log
              /\ rs_ret'[1].context = rs_cache[rs_ret'[1].path]
      ]_vars

\* A path resolved by one caller has been resolved again by the other after
\* the directory changed: the call returned the first answer, not what git
\* would say now.
C17_Witness ==
    /\ rs_ret # <<>>
    /\ rs_ret[1].hit
    /\ rs_ret[1].caller = "detect_current_git_context"
    /\ rs_ret[1].context # ComputedContext(rs_disk[rs_ret[1].path])
    /\ Len(rs_log) = 3

(***************************************************************************)
(* Further properties of the picker, checked under Spec.                   *)
(***************************************************************************)
\* C18: in ConfirmingDelete the no-key or Escape brings the picker back to
\* Browsing with the "Deletion cancelled." message on the status row and
\* changes neither the list, the cursor nor storage, the delete handler not
\* being called; any key other than yes, no and Escape leaves the picker in
\* ConfirmingDelete on the same target.
C18_CancelOrStay ==
    [][ /\ (pc = "ConfirmingDelete" /\ key' \in KeysNo)
              => /\ pc' = "Browsing"
                 /\ status_row' = MsgCancelled
                 /\ summaries' = summaries
                 /\ total' = total
                 /\ current' = current
                 /\ files' = files
                 /\ deleted' = deleted
        /\ (pc = "ConfirmingDelete" /\ key' # key /\ key' \notin KeysYes \cup KeysNo)
              => /\ pc' = "ConfirmingDelete"
                 /\ target' = target
                 /\ summaries' = summaries
                 /\ current' = current
                 /\ files' = files
      ]_vars

\* Escape has cancelled a delete asked for on the last record of a full list.
C18_Witness ==
    /\ pc = "Browsing"
    /\ key = "ESC"
    /\ status_row = MsgCancelled
    /\ target = <<summaries[current + 1]>>
    /\ Len(summaries) = MaxSessions
    /\ current = MaxSessions - 1

\* C19: without delete mode no step reaches ConfirmingDelete, calls the
\* delete handler or changes the list or storage, and a delete key read in
\* Browsing leaves the picker in Browsing with the cursor where it was.
C19_NoDeleteWithoutMode ==
    [][ ~allow_delete =>
            /\ pc' \notin {"ConfirmingDelete", "DeleteReturned"}
            /\ summaries' = summaries
            /\ total' = total
            /\ files' = files
            /\ deleted' = deleted
            /\ (pc = "Browsing" /\ key' \in KeysDelete /\ ~InterruptBrowsing)
                  => /\ pc' = "Browsing"
                     /\ current' = current
      ]_vars

\* Without delete mode, the delete key has been pressed with the cursor on
\* the last record of a full list; the picker waits for the next key.
C19_Witness ==
    /\ ~allow_delete
    /\ pc = "Browsing"
    /\ key \in KeysDelete
    /\ Len(summaries) = MaxSessions
    /\ current = MaxSessions - 1

\* C20: whenever the picker waits for a Browsing key, the item counter is the
\* length of the list, the cursor is on a record of the list, and the window
\* of that cycle shows the cursor's row: 0 <= top <= current < top + visible;
\* and a record returned as the selection is in the list.
C20_CursorOnScreen ==
    /\ pc = "Browsing" =>
          /\ total = Len(summaries)
          /\ 0 <= current
          /\ current < Len(summaries)
          /\ 0 <= top
          /\ top <= current
          /\ current < top + visible
    /\ selection # <<>> =>
          \E i \in 1..Len(summaries) : summaries[i] = selection[1]

\* After a successful delete of the last record of a full list the picker
\* waits for a key, the cursor on the new last record in a scrolled window.
C20_Witness ==
    /\ pc = "Browsing"
    /\ deleted
    /\ status_row = MsgDeleted
    /\ Len(summaries) = MaxSessions - 1
    /\ current = Len(summaries) - 1
    /\ top > 0
====
